---- MODULE Spec2Model ----
(***************************************************************************)
(* Model of streamlit_app.py: the fiscal-withholding analyser.             *)
(*                                                                         *)
(*   - clean_currency, extract_data_from_pdf and calcular_impostos_finais  *)
(*     are operators, applied by the actions of SpecCurrency, SpecPipeline *)
(*     and SpecCalc to inputs drawn from bounded sets;                     *)
(*   - Spec is the Streamlit application: sessions that rerun the script,  *)
(*     the password gate, the "Analisar Agora" handler, the process-wide   *)
(*     st.cache_data memo of extract_data_from_pdf and the analises table. *)
(*                                                                         *)
(* A Python str is a sequence of one-character strings.  A Python float is *)
(* an exact decimal [num, den] with den a power of ten, kept in lowest     *)
(* decimal form (no trailing zero digit), so that equal amounts are equal  *)
(* values: 100,00 and 100 are both [num |-> 100, den |-> 1].               *)
(***************************************************************************)
EXTENDS Integers, Sequences, FiniteSets, TLC

VARIABLES
    text,                    \* clean_currency: the argument
    cc_out,                  \* clean_currency: the outcome of the call
    cc_pc,                   \* "ready" | "called" | "extracted"
    cc_page_out,             \* outcome of extracting a page whose PIS token is text
    document,                \* extract_data_from_pdf: the page texts of the PDF
    page_fields,             \* invoice_data of each page, as left by the scan
    extract_out,             \* outcome of extract_data_from_pdf
    faturamento_mensal,      \* calcular_impostos_finais: the revenue
    calc_out,                \* [resumo_final, inss] returned by calcular_impostos_finais
    pipe_pc,                 \* "start" | "extracted" | "calculated"
    session_state,           \* st.session_state of each session
    password_input,          \* the text of the password field at the last run
    interface,               \* what the last run rendered: "none" | "login" | "main"
    uploaded_file,           \* the file_uploader widget of each session
    faturamento,             \* the number_input widget of each session
    pc,                      \* where the session's "Analisar Agora" run stands
    dados_extraidos,         \* the run's local dados_extraidos
    message,                 \* the st.error / st.warning / st.success of the last run
    resumo,                  \* the summary the last run displayed
    cache,                   \* st.cache_data: the memo of extract_data_from_pdf
    db_ready,                \* st.cache_resource: setup_database has run
    analises                 \* the rows of table analises, by id

currencyVars == <<text, cc_out, cc_pc, cc_page_out>>

pipeVars == <<document, page_fields, extract_out, faturamento_mensal, calc_out, pipe_pc>>

appVars ==
    <<session_state, password_input, interface, uploaded_file, faturamento, pc,
      dados_extraidos, message, resumo, cache, db_ready, analises>>

vars == <<currencyVars, pipeVars, appVars>>

-----------------------------------------------------------------------------
(* Bounds of the model *)

MaxLen == 4

MaxLines == 3

MaxPages == 2

MaxRecords == 2

MaxRows == 3

-----------------------------------------------------------------------------
(* Python str *)

Digits == {"0", "1", "2", "3", "4", "5", "6", "7", "8", "9"}

Whitespace == {" ", "\t"}

UpperCase == <<"A", "B", "C", "D", "E", "F", "G", "H", "I", "J", "K", "L", "M",
               "N", "O", "P", "Q", "R", "S", "T", "U", "V", "W", "X", "Y", "Z",
               "U_acute", "A_tilde">>

LowerCase == <<"a", "b", "c", "d", "e", "f", "g", "h", "i", "j", "k", "l", "m",
               "n", "o", "p", "q", "r", "s", "t", "u", "v", "w", "x", "y", "z",
               "u_acute", "a_tilde">>

\* str.lower() on one character
LowerChar(c) ==
    IF \E i \in 1..Len(UpperCase) : UpperCase[i] = c
    THEN LowerCase[CHOOSE i \in 1..Len(UpperCase) : UpperCase[i] = c]
    ELSE c

\* str.lower()
lower(s) == [i \in 1..Len(s) |-> LowerChar(s[i])]

RECURSIVE lstrip(_)
lstrip(s) ==
    IF s # <<>> /\ Head(s) \in Whitespace THEN lstrip(Tail(s)) ELSE s

RECURSIVE rstrip(_)
rstrip(s) ==
    IF s # <<>> /\ s[Len(s)] \in Whitespace
    THEN rstrip(SubSeq(s, 1, Len(s) - 1))
    ELSE s

\* str.strip()
strip(s) == rstrip(lstrip(s))

\* str.replace(old, new) for a one-character old; new is a str
RECURSIVE replace(_, _, _)
replace(s, old, new) ==
    IF s = <<>> THEN <<>>
    ELSE (IF Head(s) = old THEN new ELSE <<Head(s)>>) \o replace(Tail(s), old, new)

\* `c in s` for a one-character c
Contains(s, c) == \E i \in 1..Len(s) : s[i] = c

\* An optional str: None, or a str
None == [isNone |-> TRUE, s |-> <<>>]

Some(s) == [isNone |-> FALSE, s |-> s]

-----------------------------------------------------------------------------
(* Python float, as an exact decimal *)

RECURSIVE Pow10(_)
Pow10(n) == IF n = 0 THEN 1 ELSE 10 * Pow10(n - 1)

\* lowest decimal form of num/den
RECURSIVE Norm(_, _)
Norm(num, den) ==
    IF den > 1 /\ num % 10 = 0
    THEN Norm(num \div 10, den \div 10)
    ELSE [num |-> num, den |-> den]

Zero == [num |-> 0, den |-> 1]

MaxDen(x, y) == IF x.den >= y.den THEN x.den ELSE y.den

FAdd(x, y) ==
    LET d == MaxDen(x, y)
    IN  Norm(x.num * (d \div x.den) + y.num * (d \div y.den), d)

FSub(x, y) ==
    LET d == MaxDen(x, y)
    IN  Norm(x.num * (d \div x.den) - y.num * (d \div y.den), d)

FMul(x, y) == Norm(x.num * y.num, x.den * y.den)

FGt(x, y) ==
    LET d == MaxDen(x, y)
    IN  x.num * (d \div x.den) > y.num * (d \div y.den)

DigitValue(c) == CHOOSE v \in 0..9 : ToString(v) = c

\* the integer written by a str of digits ("" writes 0)
RECURSIVE DigitsValue(_)
DigitsValue(s) ==
    IF s = <<>> THEN 0
    ELSE 10 * DigitsValue(SubSeq(s, 1, Len(s) - 1)) + DigitValue(s[Len(s)])

\* the outcome of a call: a value, or an exception that propagates
Ret(v) == [raised |-> "", value |-> v]

Raise(e) == [raised |-> e, value |-> Zero]

\* float(s) for s made of an optional sign, digits and '.': ValueError unless
\* s holds at most one '.' and at least one digit
float(s) ==
    LET signed == s # <<>> /\ Head(s) \in {"-", "+"}
        body   == IF signed THEN Tail(s) ELSE s
        dots   == {i \in 1..Len(body) : body[i] = "."}
        ndig   == Cardinality({i \in 1..Len(body) : body[i] \in Digits})
        wellformed ==
            /\ \A i \in 1..Len(body) : body[i] \in Digits \cup {"."}
            /\ Cardinality(dots) <= 1
            /\ ndig >= 1
        dot    == IF dots = {} THEN Len(body) + 1 ELSE CHOOSE i \in dots : TRUE
        whole  == SubSeq(body, 1, dot - 1)
        frac   == SubSeq(body, dot + 1, Len(body))
        mag    == DigitsValue(whole \o frac)
    IN  IF wellformed
        THEN Ret(Norm(IF signed /\ Head(s) = "-" THEN 0 - mag ELSE mag,
                      Pow10(Len(frac))))
        ELSE Raise("ValueError")

-----------------------------------------------------------------------------
(* clean_currency *)

\* a character class that also takes the sign
InClassSigned(c) == c \in Digits \cup {".", ",", "-"}

\* the character class [\d\.,]
InClass(c) == c \in Digits \cup {".", ","}

\* re.search(r'[\d\.,]+', s): the leftmost maximal run of class characters
re_search(s) ==
    LET starts == {i \in 1..Len(s) : InClass(s[i])}
    IN  IF starts = {} THEN [found |-> FALSE, group0 |-> <<>>]
        ELSE LET b == CHOOSE i \in starts : \A j \in starts : i <= j
                 e == CHOOSE k \in b..Len(s) :
                        /\ \A j \in b..k : InClass(s[j])
                        /\ (k = Len(s) \/ ~InClass(s[k + 1]))
             IN  [found |-> TRUE, group0 |-> SubSeq(s, b, e)]

\* clean_currency with no except clause
CaughtNothing == {}

\* the except clause of clean_currency
Caught == {"ValueError", "AttributeError"}

\* clean_currency that leaves the thousands separators in
clean_currency_keeping_periods(t) ==
    IF t.isNone \/ t.s = <<>> THEN Ret(Zero)
    ELSE LET match == re_search(t.s)
         IN  IF match.found
             THEN LET f == float(replace(match.group0, ",", <<".">>))
                  IN  IF f.raised \in Caught THEN Ret(Zero) ELSE f
             ELSE Ret(Zero)

clean_currency(t) ==
    IF t.isNone \/ t.s = <<>> THEN Ret(Zero)
    ELSE LET match == re_search(t.s)
         IN  IF match.found
             THEN LET value_str == replace(replace(match.group0, ".", <<>>), ",", <<".">>)
                      f == float(value_str)
                  IN  IF f.raised \in Caught THEN Ret(Zero) ELSE f
             ELSE Ret(Zero)

-----------------------------------------------------------------------------
(* extract_data_from_pdf *)

\* str.split(sep) for a one-character sep
RECURSIVE split(_, _)
split(s, sep) ==
    IF ~Contains(s, sep) THEN <<s>>
    ELSE LET i == CHOOSE k \in 1..Len(s) : s[k] = sep /\ \A j \in 1..(k - 1) : s[j] # sep
         IN  <<SubSeq(s, 1, i - 1)>> \o split(SubSeq(s, i + 1, Len(s)), sep)

anchor_map ==
    ("numero_nota" :>
        <<"N", "u_acute", "m", "e", "r", "o", " ", "d", "a", " ", "N", "F", "S", "-", "e">>) @@
    ("data_emissao" :>
        <<"D", "a", "t", "a", " ", "e", " ", "H", "o", "r", "a", " ", "d", "e", " ",
          "E", "m", "i", "s", "s", "a_tilde", "o", " ", "d", "a", " ", "N", "F", "S", "-", "e">>) @@
    ("cnpj_tomador" :>
        <<"C", "P", "F", "/", "C", "N", "P", "J", "/", "D", "o", "c", "u", "m", "e", "n", "t", "o">>) @@
    ("razao_social_tomador" :>
        <<"N", "o", "m", "e", "/", "R", "a", "z", "a_tilde", "o", " ", "S", "o", "c", "i", "a", "l">>) @@
    ("iss_retido_check" :> <<"I", "S", "S", " ", "R", "e", "t", "i", "d", "o">>) @@
    ("valor_iss" :> <<"T", "o", "t", "a", "l", " ", "d", "o", " ", "I", "S", "S">>) @@
    ("valor_pis" :> <<"P", "I", "S">>) @@
    ("valor_cofins" :> <<"C", "O", "F", "I", "N", "S">>) @@
    ("valor_csll" :> <<"C", "S", "L", "L">>) @@
    ("valor_irrf" :> <<"I", "R", "R", "F">>) @@
    ("valor_inss" :> <<"I", "N", "S", "S">>)

Keys == DOMAIN anchor_map

\* the test of line 47 on the label line
AnchorMatches(anchor, line) == lower(strip(anchor)) = lower(strip(line))

\* the scan with the first match kept instead of the last
ScanLineKeepingFirst(lines, i, invoice_data) ==
    [key \in Keys |->
        IF /\ lower(strip(anchor_map[key])) = lower(strip(lines[i]))
           /\ i + 1 <= Len(lines)
           /\ invoice_data[key].isNone
        THEN Some(strip(lines[i + 1]))
        ELSE invoice_data[key]]

\* one iteration of `for i, line in enumerate(lines)` (i counts from 1 here):
\* every key whose anchor matches line i, with a line after it, is (re)assigned
ScanLine(lines, i, invoice_data) ==
    [key \in Keys |->
        IF AnchorMatches(anchor_map[key], lines[i]) /\ i + 1 <= Len(lines)
        THEN Some(strip(lines[i + 1]))
        ELSE invoice_data[key]]

RECURSIVE ScanFrom(_, _, _)
ScanFrom(lines, i, invoice_data) ==
    IF i > Len(lines) THEN invoice_data
    ELSE ScanFrom(lines, i + 1, ScanLine(lines, i, invoice_data))

\* invoice_data after the scan of a page; a key not in the dict is None
ScanPage(page_text) ==
    ScanFrom(split(page_text, "\n"), 1, [key \in Keys |-> None])

\* invoice_data.get(key, default)
get(invoice_data, key, default) ==
    IF invoice_data[key].isNone THEN default ELSE invoice_data[key]

\* line 53
iss_retido_of(invoice_data) ==
    Contains(get(invoice_data, "iss_retido_check", Some(<<>>)).s, "1")

\* the parsed ISS amount reported whatever the flag
valor_final_iss_unflagged(iss, iss_retido) == iss

\* line 54
valor_final_iss(iss, iss_retido) == IF iss_retido THEN iss ELSE Zero

\* the test of line 55 on the ISS amount instead of the ISS flag
has_retention_by_amount(pis, cofins, csll, irrf, inss, iss_retido) ==
    \/ FGt(pis, Zero) \/ FGt(cofins, Zero) \/ FGt(csll, Zero)
    \/ FGt(irrf, Zero) \/ FGt(inss, Zero)

\* line 55
has_retention(pis, cofins, csll, irrf, inss, iss_retido) ==
    \/ FGt(pis, Zero) \/ FGt(cofins, Zero) \/ FGt(csll, Zero)
    \/ FGt(irrf, Zero) \/ FGt(inss, Zero) \/ iss_retido

RetidoKeys ==
    {"PIS Retido", "COFINS Retido", "CSLL Retido", "IRRF Retido", "INSS Retido", "ISS Retido"}

\* the body of the page loop after the scan: an exception of clean_currency
\* propagates; otherwise the records the page appends (none or one)
PageRecords(invoice_data) ==
    LET pis    == clean_currency(get(invoice_data, "valor_pis", None))
        cofins == clean_currency(get(invoice_data, "valor_cofins", None))
        csll   == clean_currency(get(invoice_data, "valor_csll", None))
        irrf   == clean_currency(get(invoice_data, "valor_irrf", None))
        inss   == clean_currency(get(invoice_data, "valor_inss", None))
        iss    == clean_currency(get(invoice_data, "valor_iss", None))
        calls  == <<pis, cofins, csll, irrf, inss, iss>>
        iss_retido == iss_retido_of(invoice_data)
    IN  IF \E k \in 1..6 : calls[k].raised # ""
        THEN Raise(calls[CHOOSE k \in 1..6 :
                            calls[k].raised # "" /\ \A j \in 1..(k - 1) : calls[j].raised = ""].raised)
        ELSE IF has_retention(pis.value, cofins.value, csll.value, irrf.value, inss.value,
                              iss_retido)
        THEN [raised |-> "",
              value |-> << ("PIS Retido" :> pis.value) @@ ("COFINS Retido" :> cofins.value) @@
                           ("CSLL Retido" :> csll.value) @@ ("IRRF Retido" :> irrf.value) @@
                           ("INSS Retido" :> inss.value) @@
                           ("ISS Retido" :> valor_final_iss(iss.value, iss_retido)) >>]
        ELSE [raised |-> "", value |-> <<>>]

RECURSIVE ExtractFrom(_, _, _)
ExtractFrom(doc, page_num, invoices_with_retention) ==
    IF page_num > Len(doc) THEN [raised |-> "", value |-> invoices_with_retention]
    ELSE LET r == PageRecords(ScanPage(doc[page_num]))
         IN  IF r.raised # "" THEN [raised |-> r.raised, value |-> <<>>]
             ELSE ExtractFrom(doc, page_num + 1, invoices_with_retention \o r.value)

extract_data_from_pdf(doc) == ExtractFrom(doc, 1, <<>>)

-----------------------------------------------------------------------------
(* calcular_impostos_finais *)

Rate(num, den) == Norm(num, den)

ALIQUOTAS ==
    ("PIS" :> Rate(65, 10000)) @@ ("COFINS" :> Rate(3, 100)) @@ ("IRPJ" :> Rate(12, 1000)) @@
    ("CSLL" :> Rate(108, 10000)) @@ ("ISS" :> Rate(5, 100))

\* sum(nota[field] for nota in dados_extraidos)
RECURSIVE SumField(_, _)
SumField(dados, field) ==
    IF dados = <<>> THEN Zero
    ELSE FAdd(SumField(SubSeq(dados, 1, Len(dados) - 1), field),
              dados[Len(dados)][field])

total_retencoes(dados) ==
    ("PIS" :> SumField(dados, "PIS Retido")) @@
    ("COFINS" :> SumField(dados, "COFINS Retido")) @@
    ("CSLL" :> SumField(dados, "CSLL Retido")) @@
    ("IRRF" :> SumField(dados, "IRRF Retido")) @@
    ("INSS" :> SumField(dados, "INSS Retido")) @@
    ("ISS" :> SumField(dados, "ISS Retido"))

\* the lookup key without the IRPJ -> IRRF alias
chave_retencao_unaliased(imposto) == imposto

\* line 82
chave_retencao(imposto) == IF imposto = "IRPJ" THEN "IRRF" ELSE imposto

\* dict.get(key, 0.0) on total_retencoes
get_total(totals, key) == IF key \in DOMAIN totals THEN totals[key] ELSE Zero

RECURSIVE IntDigits(_)
IntDigits(n) ==
    IF n < 10 THEN <<ToString(n)>> ELSE IntDigits(n \div 10) \o <<ToString(n % 10)>>

\* f"{aliquota:.2%}": the rate times 100, two decimals, then '%'
FormatPercent2(aliquota) ==
    LET hundredths == (2 * aliquota.num * 10000 + aliquota.den) \div (2 * aliquota.den)
    IN  IntDigits(hundredths \div 100) \o <<".">> \o
        <<ToString((hundredths % 100) \div 10), ToString(hundredths % 10)>> \o <<"%">>

calcular_impostos_finais(dados, revenue) ==
    LET totals == total_retencoes(dados)
        resultado_final ==
            [imposto \in DOMAIN ALIQUOTAS |->
                LET aliquota     == ALIQUOTAS[imposto]
                    valor_bruto  == FMul(revenue, aliquota)
                    total_retido == get_total(totals, chave_retencao(imposto))
                    valor_liquido == FSub(valor_bruto, total_retido)
                IN  ("Aliquota" :> FormatPercent2(aliquota)) @@
                    ("Valor Bruto a Pagar" :> valor_bruto) @@
                    ("Total Retido" :> total_retido) @@
                    ("Valor Liquido a Pagar" :> valor_liquido)]
    IN  [resumo |-> resultado_final, inss |-> get_total(totals, "INSS")]

-----------------------------------------------------------------------------
(* SpecCurrency: clean_currency applied to every short str and to None *)

Alphabet == {"1", "0", ".", ",", "x", "-", " "}

RECURSIVE StringsUpTo(_)
StringsUpTo(n) ==
    IF n = 0 THEN {<<>>}
    ELSE LET shorter == StringsUpTo(n - 1)
         IN  shorter \cup {Append(s, c) : s \in {w \in shorter : Len(w) = n - 1}, c \in Alphabet}

SampleStrings ==
    { <<"1", ".", "2", "3", "4", ",", "5", "6">>,
      <<"1", "0", "0", ",", "0", "0">>,
      <<"I", "S", "S", " ", "R", "e", "t", "i", "d", "o">>,
      <<"R", "$", " ", "1", "2", ",", "5", "0">>,
      <<"1", ",", "2", ",", "3", "4", "5">> }

CurrencyInputs == {None} \cup {Some(s) : s \in StringsUpTo(MaxLen) \cup SampleStrings}

Sessions == {"s1", "s2"}

NoResumo == [resumo |-> <<>>, inss |-> Zero]

EmptyDict == [k \in {} |-> FALSE]

AppIdle ==
    /\ session_state = [s \in Sessions |-> EmptyDict]
    /\ password_input = [s \in Sessions |-> ""]
    /\ interface = [s \in Sessions |-> "none"]
    /\ uploaded_file = [s \in Sessions |-> "none"]
    /\ faturamento = [s \in Sessions |-> Zero]
    /\ pc = [s \in Sessions |-> "idle"]
    /\ dados_extraidos = [s \in Sessions |-> <<>>]
    /\ message = [s \in Sessions |-> ""]
    /\ resumo = [s \in Sessions |-> NoResumo]
    /\ cache = EmptyDict
    /\ db_ready = FALSE
    /\ analises = <<>>

PipeIdle ==
    /\ document = <<>>
    /\ page_fields = <<>>
    /\ extract_out = [raised |-> "", value |-> <<>>]
    /\ faturamento_mensal = Zero
    /\ calc_out = [resumo |-> <<>>, inss |-> Zero]
    /\ pipe_pc = "off"

CurrencyIdle ==
    /\ text = None
    /\ cc_out = Ret(Zero)
    /\ cc_pc = "off"
    /\ cc_page_out = [raised |-> "", value |-> <<>>]

InitCurrency ==
    /\ text \in CurrencyInputs
    /\ cc_out = Ret(Zero)
    /\ cc_pc = "ready"
    /\ cc_page_out = [raised |-> "", value |-> <<>>]
    /\ PipeIdle
    /\ AppIdle

\* clean_currency(text)
CallCleanCurrency ==
    /\ cc_pc = "ready"
    /\ cc_out' = clean_currency(text)
    /\ cc_pc' = "called"
    /\ UNCHANGED <<text, cc_page_out, pipeVars, appVars>>

\* a one-page invoice whose PIS field is text (no PIS field when text is None)
\* and whose IRRF field is 7,25
FieldPage(t) ==
    (IF t.isNone THEN <<>> ELSE anchor_map["valor_pis"] \o <<"\n">> \o t.s \o <<"\n">>)
    \o anchor_map["valor_irrf"] \o <<"\n">> \o <<"7", ",", "2", "5">>

\* extract_data_from_pdf on the page whose PIS field is text
ExtractField ==
    /\ cc_pc = "ready"
    /\ cc_page_out' = extract_data_from_pdf(<<FieldPage(text)>>)
    /\ cc_pc' = "extracted"
    /\ UNCHANGED <<text, cc_out, pipeVars, appVars>>

NextCurrency == CallCleanCurrency \/ ExtractField

SpecCurrency == InitCurrency /\ [][NextCurrency]_vars

-----------------------------------------------------------------------------
(* SpecPipeline: extraction, then calculation, of bounded documents *)

\* "\n".join(lines)
RECURSIVE join(_)
join(lines) ==
    IF Len(lines) = 0 THEN <<>>
    ELSE IF Len(lines) = 1 THEN lines[1]
    ELSE lines[1] \o <<"\n">> \o join(Tail(lines))

L_pis_padded == <<" ", " ", "p", "i", "s", " ">>

L_valor_pis == <<"V", "a", "l", "o", "r", " ", "P", "I", "S">>

L_sim == <<"(", "1", ")", " ", "S", "i", "m">>

L_nao == <<"(", "2", ")", " ", "N", "a", "o">>

L_nota == <<"N", "o", "t", "a", " ", "F", "i", "s", "c", "a", "l">>

L_12_50 == <<"1", "2", ",", "5", "0">>

L_0_00 == <<"0", ",", "0", "0">>

L_3_00 == <<"3", ",", "0", "0">>

L_1_00 == <<"1", ",", "0", "0">>

L_1_50 == <<"1", ",", "5", "0">>

L_11_00 == <<"1", "1", ",", "0", "0">>

L_5_00 == <<"5", ",", "0", "0">>

L_99_00 == <<"9", "9", ",", "0", "0">>

L_7_25 == <<"7", ",", "2", "5">>

L_2_00 == <<"2", ",", "0", "0">>

L_minus_4_00 == <<"-", "4", ",", "0", "0">>

\* the lines the scanned pages are made of: labels as printed, a padded
\* lower-case label, a label inside a sentence, amounts, flags, a blank line
LineVocab ==
    { anchor_map["valor_pis"], L_pis_padded, L_valor_pis,
      anchor_map["iss_retido_check"], anchor_map["valor_iss"],
      L_12_50, L_0_00, L_sim, <<>> }

RECURSIVE LineSeqs(_)
LineSeqs(n) ==
    IF n = 0 THEN {<<>>}
    ELSE LET shorter == LineSeqs(n - 1)
         IN  shorter \cup {Append(ls, l) : ls \in {w \in shorter : Len(w) = n - 1}, l \in LineVocab}

\* every page of 1..MaxLines lines of LineVocab
ScanPages == {join(ls) : ls \in LineSeqs(MaxLines) \ {<<>>}}

\* whole invoices
SamplePages ==
    { join(<<anchor_map["valor_pis"], L_12_50, anchor_map["valor_cofins"], L_3_00,
             anchor_map["valor_csll"], L_1_00, anchor_map["valor_irrf"], L_1_50,
             anchor_map["valor_inss"], L_11_00, anchor_map["iss_retido_check"], L_sim,
             anchor_map["valor_iss"], L_5_00>>),
      join(<<anchor_map["iss_retido_check"], L_sim>>),
      join(<<anchor_map["valor_iss"], L_99_00, anchor_map["iss_retido_check"], L_nao,
             anchor_map["valor_pis"], L_0_00>>),
      join(<<L_nota>>),
      join(<<anchor_map["valor_irrf"], L_7_25>>),
      join(<<anchor_map["valor_iss"], L_99_00, anchor_map["valor_pis"], L_2_00>>),
      join(<<anchor_map["valor_pis"], L_minus_4_00, anchor_map["valor_inss"], L_1_00>>) }

RECURSIVE SeqsUpTo(_, _)
SeqsUpTo(S, n) ==
    IF n = 0 THEN {<<>>}
    ELSE LET shorter == SeqsUpTo(S, n - 1)
         IN  shorter \cup {Append(q, x) : q \in {w \in shorter : Len(w) = n - 1}, x \in S}

Documents == {<<p>> : p \in ScanPages} \cup SeqsUpTo(SamplePages, MaxPages)

Amount(num, den) == Norm(num, den)

Revenues == {Zero, Amount(100, 1), Amount(1000, 1), Amount(100000, 1), Amount(25, 10)}

InitPipeline ==
    /\ document \in Documents
    /\ page_fields = <<>>
    /\ extract_out = [raised |-> "", value |-> <<>>]
    /\ faturamento_mensal = Zero
    /\ calc_out = [resumo |-> <<>>, inss |-> Zero]
    /\ pipe_pc = "start"
    /\ CurrencyIdle
    /\ AppIdle

\* extract_data_from_pdf(document); page_fields keeps each page's invoice_data
Extract ==
    /\ pipe_pc = "start"
    /\ page_fields' = [p \in 1..Len(document) |-> ScanPage(document[p])]
    /\ extract_out' = extract_data_from_pdf(document)
    /\ pipe_pc' = "extracted"
    /\ UNCHANGED <<document, faturamento_mensal, calc_out, currencyVars, appVars>>

\* calcular_impostos_finais(dados_extraidos, faturamento_mensal)
Calcular ==
    /\ pipe_pc = "extracted"
    /\ extract_out.raised = ""
    /\ \E revenue \in Revenues :
        /\ faturamento_mensal' = revenue
        /\ calc_out' = calcular_impostos_finais(extract_out.value, revenue)
    /\ pipe_pc' = "calculated"
    /\ UNCHANGED <<document, page_fields, extract_out, currencyVars, appVars>>

NextPipeline == Extract \/ Calcular

SpecPipeline == InitPipeline /\ [][NextPipeline]_vars

-----------------------------------------------------------------------------
(* SpecCalc: calcular_impostos_finais on bounded record sequences *)

Record(pis, cofins, csll, irrf, inss, iss) ==
    ("PIS Retido" :> pis) @@ ("COFINS Retido" :> cofins) @@ ("CSLL Retido" :> csll) @@
    ("IRRF Retido" :> irrf) @@ ("INSS Retido" :> inss) @@ ("ISS Retido" :> iss)

SampleRecords ==
    { Record(Zero, Zero, Zero, Zero, Zero, Zero),
      Record(Amount(10, 1), Amount(20, 1), Amount(5, 1), Amount(15, 1), Amount(8, 1), Amount(50, 1)),
      Record(Amount(5, 1), Zero, Zero, Zero, Zero, Zero),
      Record(Amount(1250, 100), Amount(3, 1), Amount(1, 1), Amount(150, 100), Amount(11, 1),
             Amount(5, 1)),
      Record(Zero, Zero, Zero, Amount(725, 100), Zero, Zero),
      Record(Amount(70, 1), Zero, Zero, Zero, Amount(1, 100), Amount(600, 1)) }

InitCalc ==
    /\ document = <<>>
    /\ page_fields = <<>>
    /\ extract_out \in {[raised |-> "", value |-> d] : d \in SeqsUpTo(SampleRecords, MaxRecords)}
    /\ faturamento_mensal = Zero
    /\ calc_out = [resumo |-> <<>>, inss |-> Zero]
    /\ pipe_pc = "extracted"
    /\ CurrencyIdle
    /\ AppIdle

NextCalc == Calcular

SpecCalc == InitCalc /\ [][NextCalc]_vars

-----------------------------------------------------------------------------
(* Spec: the Streamlit application *)

\* st.secrets["APP_PASSWORD"]
APP_PASSWORD == "segredo"

Passwords == {APP_PASSWORD, "errada"}

\* the PDF files a user may upload, and the page texts of each
Files == {"a.pdf", "b.pdf", "c.pdf"}

Bytes(file) ==
    IF file = "a.pdf"
    THEN << join(<<anchor_map["valor_pis"], L_12_50, anchor_map["valor_cofins"], L_3_00,
                   anchor_map["valor_csll"], L_1_00, anchor_map["valor_irrf"], L_1_50,
                   anchor_map["valor_inss"], L_11_00, anchor_map["iss_retido_check"], L_sim,
                   anchor_map["valor_iss"], L_5_00>>) >>
    ELSE IF file = "b.pdf"
    THEN << join(<<anchor_map["valor_irrf"], L_7_25>>),
            join(<<anchor_map["iss_retido_check"], L_sim>>) >>
    ELSE << join(<<L_nota>>) >>

\* the values of the number_input (min_value=0.0)
Faturamentos == {Zero, Amount(1000, 1)}

\* the memo keyed by nothing but the function
CacheKeyIgnoringArgs(pdf_bytes) == <<>>

\* st.cache_data keys the memo by the hash of the argument
CacheKey(pdf_bytes) == pdf_bytes

\* check_password that lets any password in
check_password_any(state, entrar, password) ==
    LET st1 == IF "password_correct" \in DOMAIN state THEN state
               ELSE [password_correct |-> FALSE]
    IN  IF ~st1.password_correct
        THEN IF entrar
             THEN [state |-> [password_correct |-> TRUE], ret |-> FALSE, rerun |-> TRUE,
                   error |-> FALSE]
             ELSE [state |-> st1, ret |-> FALSE, rerun |-> FALSE, error |-> FALSE]
        ELSE [state |-> st1, ret |-> TRUE, rerun |-> FALSE, error |-> FALSE]

\* check_password(): state is st.session_state, entrar whether the button was
\* pressed; rerun is st.experimental_rerun(), which ends the run
check_password(state, entrar, password) ==
    LET st1 == IF "password_correct" \in DOMAIN state THEN state
               ELSE [password_correct |-> FALSE]
    IN  IF ~st1.password_correct
        THEN IF entrar
             THEN IF password = APP_PASSWORD
                  THEN [state |-> [password_correct |-> TRUE], ret |-> FALSE,
                        rerun |-> TRUE, error |-> FALSE]
                  ELSE [state |-> st1, ret |-> FALSE, rerun |-> FALSE, error |-> TRUE]
             ELSE [state |-> st1, ret |-> FALSE, rerun |-> FALSE, error |-> FALSE]
        ELSE [state |-> st1, ret |-> TRUE, rerun |-> FALSE, error |-> FALSE]

\* `if check_password():` of a run and, after st.experimental_rerun(), of the
\* run that follows it with no button pressed
Gate(state, entrar, password) ==
    LET first == check_password(state, entrar, password)
    IN  IF first.rerun THEN check_password(first.state, FALSE, password) ELSE first

\* the test of line 131 on uploaded_file alone
InputsValidFileOnly(file, revenue) == file # "none"

\* line 131
InputsValid(file, revenue) == file # "none" /\ FGt(revenue, Zero)

\* lines 118-162 of a run: setup_database(), then the button's handler up to
\* the call of extract_data_from_pdf
MainInterface(s, analisar) ==
    /\ db_ready' = TRUE
    /\ interface' = [interface EXCEPT ![s] = "main"]
    /\ resumo' = [resumo EXCEPT ![s] = NoResumo]
    /\ IF analisar /\ InputsValid(uploaded_file'[s], faturamento'[s])
       THEN /\ pc' = [pc EXCEPT ![s] = "extract"]
            /\ message' = [message EXCEPT ![s] = ""]
       ELSE /\ pc' = pc
            /\ message' = [message EXCEPT ![s] = IF analisar THEN "error" ELSE ""]

\* one run of the script for session s
ScriptRun(s, entrar, password, analisar) ==
    LET g == Gate(session_state[s], entrar, password)
    IN  /\ session_state' = [session_state EXCEPT ![s] = g.state]
        /\ IF g.ret
           THEN MainInterface(s, analisar)
           ELSE /\ interface' = [interface EXCEPT ![s] = "login"]
                /\ message' = [message EXCEPT ![s] = IF g.error THEN "senha incorreta" ELSE ""]
                /\ UNCHANGED <<db_ready, resumo, pc>>

Init ==
    /\ AppIdle
    /\ CurrencyIdle
    /\ PipeIdle

\* the browser opens the page: the first run of the session
OpenPage(s) ==
    /\ interface[s] = "none"
    /\ ScriptRun(s, FALSE, password_input[s], FALSE)
    /\ UNCHANGED <<password_input, uploaded_file, faturamento, dados_extraidos, cache,
                   analises, currencyVars, pipeVars>>

\* 'Entrar' pressed with a password typed
Entrar(s) ==
    /\ interface[s] = "login"
    /\ \E password \in Passwords :
        /\ password_input' = [password_input EXCEPT ![s] = password]
        /\ ScriptRun(s, TRUE, password, FALSE)
    /\ UNCHANGED <<uploaded_file, faturamento, dados_extraidos, cache, analises,
                   currencyVars, pipeVars>>

\* a file uploaded or removed, or the revenue edited: the script reruns
ChangeInputs(s) ==
    /\ interface[s] = "main"
    /\ pc[s] = "idle"
    /\ \E file \in Files \cup {"none"}, revenue \in Faturamentos :
        /\ <<file, revenue>> # <<uploaded_file[s], faturamento[s]>>
        /\ uploaded_file' = [uploaded_file EXCEPT ![s] = file]
        /\ faturamento' = [faturamento EXCEPT ![s] = revenue]
    /\ ScriptRun(s, FALSE, password_input[s], FALSE)
    /\ UNCHANGED <<password_input, dados_extraidos, cache, analises, currencyVars, pipeVars>>

RunsInFlight == Cardinality({t \in Sessions : pc[t] # "idle"})

\* 'Analisar Agora' pressed
Analisar(s) ==
    /\ interface[s] = "main"
    /\ pc[s] = "idle"
    /\ Len(analises) + RunsInFlight < MaxRows
    /\ UNCHANGED <<uploaded_file, faturamento>>
    /\ ScriptRun(s, FALSE, password_input[s], TRUE)
    /\ UNCHANGED <<password_input, dados_extraidos, cache, analises, currencyVars, pipeVars>>

\* extract_data_from_pdf(pdf_bytes) called: st.cache_data looks the memo up
CacheLookup(s) ==
    /\ pc[s] = "extract"
    /\ LET key == CacheKey(Bytes(uploaded_file[s]))
       IN  IF key \in DOMAIN cache
           THEN /\ dados_extraidos' = [dados_extraidos EXCEPT ![s] = cache[key]]
                /\ pc' = [pc EXCEPT ![s] = "calc"]
           ELSE /\ pc' = [pc EXCEPT ![s] = "compute"]
                /\ UNCHANGED dados_extraidos
    /\ UNCHANGED <<session_state, password_input, interface, uploaded_file, faturamento,
                   message, resumo, cache, db_ready, analises, currencyVars, pipeVars>>

\* on a miss the function body runs and st.cache_data stores what it returns;
\* an exception ends the run
CacheCompute(s) ==
    /\ pc[s] = "compute"
    /\ \E out \in {extract_data_from_pdf(Bytes(uploaded_file[s]))},
          key \in {CacheKey(Bytes(uploaded_file[s]))} :
        IF out.raised = ""
        THEN /\ cache' = [k \in DOMAIN cache \cup {key} |->
                             IF k = key THEN out.value ELSE cache[k]]
             /\ dados_extraidos' = [dados_extraidos EXCEPT ![s] = out.value]
             /\ pc' = [pc EXCEPT ![s] = "calc"]
             /\ UNCHANGED message
        ELSE /\ pc' = [pc EXCEPT ![s] = "idle"]
             /\ message' = [message EXCEPT ![s] = "exception"]
             /\ UNCHANGED <<cache, dados_extraidos>>
    /\ UNCHANGED <<session_state, password_input, interface, uploaded_file, faturamento,
                   resumo, db_ready, analises, currencyVars, pipeVars>>

\* the row of line 145-146 (data_processamento, the clock's reading, left out)
Row(file, revenue, r) ==
    [nome_arquivo |-> file, faturamento |-> revenue,
     pis_liquido |-> r.resumo["PIS"]["Valor Liquido a Pagar"],
     cofins_liquido |-> r.resumo["COFINS"]["Valor Liquido a Pagar"],
     csll_liquido |-> r.resumo["CSLL"]["Valor Liquido a Pagar"],
     irpj_liquido |-> r.resumo["IRPJ"]["Valor Liquido a Pagar"],
     iss_liquido |-> r.resumo["ISS"]["Valor Liquido a Pagar"],
     inss_retido |-> r.inss]

\* lines 138-160: the warning, or the calculation, the INSERT and the summary
Finish(s) ==
    /\ pc[s] = "calc"
    /\ IF dados_extraidos[s] = <<>>
       THEN /\ message' = [message EXCEPT ![s] = "warning"]
            /\ UNCHANGED <<resumo, analises>>
       ELSE LET r == calcular_impostos_finais(dados_extraidos[s], faturamento[s])
            IN  /\ analises' = Append(analises, Row(uploaded_file[s], faturamento[s], r))
                /\ message' = [message EXCEPT ![s] = "success"]
                /\ resumo' = [resumo EXCEPT ![s] = r]
    /\ pc' = [pc EXCEPT ![s] = "idle"]
    /\ dados_extraidos' = [dados_extraidos EXCEPT ![s] = <<>>]
    /\ UNCHANGED <<session_state, password_input, interface, uploaded_file, faturamento,
                   cache, db_ready, currencyVars, pipeVars>>

Next ==
    \E s \in Sessions :
        \/ OpenPage(s)
        \/ Entrar(s)
        \/ ChangeInputs(s)
        \/ Analisar(s)
        \/ CacheLookup(s)
        \/ CacheCompute(s)
        \/ Finish(s)

Spec == Init /\ [][Next]_vars

-----------------------------------------------------------------------------
(* Claims about clean_currency (SpecCurrency) *)

\* the first contiguous run of digits, periods and commas of s ("" when none)
FirstRun(s) ==
    IF \A i \in 1..Len(s) : ~(s[i] \in Digits \/ s[i] = "." \/ s[i] = ",") THEN <<>>
    ELSE LET b == CHOOSE i \in 1..Len(s) :
                    /\ s[i] \in Digits \/ s[i] = "." \/ s[i] = ","
                    /\ \A j \in 1..(i - 1) : ~(s[j] \in Digits \/ s[j] = "." \/ s[j] = ",")
             n == CHOOSE k \in 1..(Len(s) - b + 1) :
                    /\ \A j \in b..(b + k - 1) : s[j] \in Digits \/ s[j] = "." \/ s[j] = ","
                    /\ b + k <= Len(s) => ~(s[b + k] \in Digits \/ s[b + k] = "." \/ s[b + k] = ",")
         IN  [j \in 1..n |-> s[b + j - 1]]

\* the number a run writes once its periods are dropped and its first comma
\* reads as the decimal point; 0.0 when that text is no number
WrittenNumber(run) ==
    LET p      == SelectSeq(run, LAMBDA c : c # ".")
        commas == {i \in 1..Len(p) : p[i] = ","}
    IN  IF Cardinality(commas) >= 2 THEN Zero
        ELSE IF commas = {}
        THEN (IF p = <<>> THEN Zero ELSE [num |-> DigitsValue(p), den |-> 1])
        ELSE LET k == CHOOSE i \in commas : TRUE
                 a == SubSeq(p, 1, k - 1)
                 b == SubSeq(p, k + 1, Len(p))
             IN  IF a = <<>> /\ b = <<>> THEN Zero
                 ELSE Norm(DigitsValue(a) * Pow10(Len(b)) + DigitsValue(b), Pow10(Len(b)))

\* C4: for every input string clean_currency returns the number written by the
\* first run of digits, periods and commas once every period is stripped and the
\* first remaining comma reads as the decimal point ("1.234,56" gives 1234.56,
\* "100,00" gives 100.00), and 0.0 whenever that text is not a valid number.
C4_CleanCurrencyValue ==
    (cc_pc = "called" /\ ~text.isNone) =>
        /\ cc_out = Ret(WrittenNumber(FirstRun(text.s)))
        /\ text.s = <<"1", ".", "2", "3", "4", ",", "5", "6">> =>
                cc_out.value = [num |-> 123456, den |-> 100]
        /\ text.s = <<"1", "0", "0", ",", "0", "0">> => cc_out.value = [num |-> 100, den |-> 1]
        /\ text.s = <<"1", ",", "2", ",", "3", "4", "5">> => cc_out.value = Zero

C4_Witness ==
    /\ cc_pc = "called"
    /\ text = Some(<<"1", ".", "2", "3", "4", ",", "5", "6">>)
    /\ cc_out = Ret([num |-> 123456, den |-> 100])

NoDigit(t) == t.isNone \/ \A i \in 1..Len(t.s) : t.s[i] \notin Digits

IsNumber(v) == v.num \in Int /\ \E k \in 0..8 : v.den = Pow10(k)

\* C5: clean_currency never propagates an error: it returns exactly 0.0 for None,
\* for "" and for every string with no digit, and a number for every other
\* string; a malformed or missing PIS field zeroes only the PIS amount of the
\* page, whose extraction still returns its record with the IRRF amount intact.
C5_NeverRaises ==
    /\ cc_pc = "called" =>
        /\ cc_out.raised = ""
        /\ IsNumber(cc_out.value)
        /\ NoDigit(text) => cc_out.value = Zero
    /\ cc_pc = "extracted" =>
        /\ cc_page_out.raised = ""
        /\ Len(cc_page_out.value) = 1
        /\ cc_page_out.value[1]["IRRF Retido"] = [num |-> 725, den |-> 100]
        /\ IsNumber(cc_page_out.value[1]["PIS Retido"])
        /\ NoDigit(text) => cc_page_out.value[1]["PIS Retido"] = Zero

C5_Witness ==
    /\ cc_pc = "extracted"
    /\ text = Some(<<".", ",">>)
    /\ cc_page_out.raised = ""
    /\ cc_page_out.value[1]["PIS Retido"] = Zero

-----------------------------------------------------------------------------
(* Claims about extract_data_from_pdf (SpecPipeline) *)

PageLines(p) == split(document[p], "\n")

\* the lines that are the label of key and have a line after them
LabelLines(lines, key) ==
    {i \in 1..(Len(lines) - 1) : lower(strip(lines[i])) = lower(strip(anchor_map[key]))}

SetMax(S) == CHOOSE m \in S : \A x \in S : x <= m

\* C9: after scanning a page, the raw token of every key is the trimmed text of
\* line i+1 for the LAST line i that equals the key's anchor once both are trimmed
\* and lower-cased and that has a line after it; the key is absent when there is
\* no such line.
C9_LastMatchWins ==
    pipe_pc = "extracted" =>
        \A p \in 1..Len(document) : \A lines \in {PageLines(p)} : \A key \in Keys :
            \A labels \in {LabelLines(lines, key)} :
                page_fields[p][key] =
                    IF labels = {} THEN None ELSE Some(strip(lines[SetMax(labels) + 1]))

\* a later match has overwritten an earlier one with another token, and a label
\* on the last line of the page has recorded nothing
C9_Witness ==
    /\ pipe_pc = "extracted"
    /\ \E p \in 1..Len(document) : \E lines \in {PageLines(p)} :
        \E i, j \in LabelLines(lines, "valor_pis") :
            /\ i < j
            /\ j = SetMax(LabelLines(lines, "valor_pis"))
            /\ strip(lines[i + 1]) # strip(lines[j + 1])
            /\ lower(strip(lines[Len(lines)])) = lower(strip(anchor_map["valor_pis"]))
            /\ page_fields[p]["valor_pis"] = Some(strip(lines[j + 1]))

Parsed(p, key) == clean_currency(page_fields[p][key]).value

FlagSet(p) ==
    /\ ~page_fields[p]["iss_retido_check"].isNone
    /\ \E i \in 1..Len(page_fields[p]["iss_retido_check"].s) :
            page_fields[p]["iss_retido_check"].s[i] = "1"

Qualifies(p) ==
    \/ \E key \in {"valor_pis", "valor_cofins", "valor_csll", "valor_irrf", "valor_inss"} :
            Parsed(p, key).num > 0
    \/ FlagSet(p)

\* the qualifying pages among the first n, in page order
RECURSIVE QualifyingPages(_)
QualifyingPages(n) ==
    IF n = 0 THEN <<>>
    ELSE QualifyingPages(n - 1) \o (IF Qualifies(n) THEN <<n>> ELSE <<>>)

\* C2: a page emits a record if and only if one of its parsed PIS, COFINS, CSLL,
\* IRRF, INSS amounts is above zero or its ISS-withheld flag is set; the output
\* holds exactly one record per qualifying page, in page order, and nothing else.
C2_OneRecordPerQualifyingPage ==
    pipe_pc = "extracted" =>
        LET q == QualifyingPages(Len(document))
        IN  /\ extract_out.raised = ""
            /\ Len(extract_out.value) = Len(q)
            /\ \A k \in 1..Len(q) :
                /\ DOMAIN extract_out.value[k] = RetidoKeys
                /\ extract_out.value[k]["PIS Retido"] = Parsed(q[k], "valor_pis")
                /\ extract_out.value[k]["COFINS Retido"] = Parsed(q[k], "valor_cofins")
                /\ extract_out.value[k]["CSLL Retido"] = Parsed(q[k], "valor_csll")
                /\ extract_out.value[k]["IRRF Retido"] = Parsed(q[k], "valor_irrf")
                /\ extract_out.value[k]["INSS Retido"] = Parsed(q[k], "valor_inss")

\* a page that qualifies by its flag alone follows one that does not qualify
C2_Witness ==
    /\ pipe_pc = "extracted"
    /\ Len(document) = 2
    /\ ~Qualifies(1)
    /\ FlagSet(2)
    /\ \A key \in {"valor_pis", "valor_cofins", "valor_csll", "valor_irrf", "valor_inss"} :
            Parsed(2, key) = Zero
    /\ Len(extract_out.value) = 1

\* C3: in every emitted record 'ISS Retido' is the parsed 'Total do ISS' value
\* when the token after the page's 'ISS Retido' anchor holds a '1', and exactly
\* 0.0 otherwise (also when that anchor was not matched), however large the
\* parsed ISS value.
C3_IssOnlyWhenFlagged ==
    pipe_pc = "extracted" =>
        LET q == QualifyingPages(Len(document))
        IN  \A k \in 1..Len(extract_out.value) :
                /\ k <= Len(q)
                /\ extract_out.value[k]["ISS Retido"] =
                        IF FlagSet(q[k]) THEN Parsed(q[k], "valor_iss") ELSE Zero

\* a record with no ISS although the page prints an ISS total, and one with it
C3_Witness ==
    /\ pipe_pc = "extracted"
    /\ Len(extract_out.value) = 2
    /\ LET q == QualifyingPages(Len(document))
       IN  /\ ~FlagSet(q[1])
           /\ Parsed(q[1], "valor_iss").num > 0
           /\ extract_out.value[1]["ISS Retido"] = Zero
           /\ FlagSet(q[2])
           /\ extract_out.value[2]["ISS Retido"].num > 0

-----------------------------------------------------------------------------
(* Claims about calcular_impostos_finais (SpecCalc, SpecPipeline) *)

\* an amount in units of 0.00001, and a revenue in units of 0.1
Units5(x) == x.num * (100000 \div x.den)

Tenths(x) == x.num * (10 \div x.den)

\* the rates in units of 0.01%: 0.65%, 3%, 1.2%, 1.08%, 5%
RatePer10000 ==
    ("PIS" :> 65) @@ ("COFINS" :> 300) @@ ("IRPJ" :> 120) @@ ("CSLL" :> 108) @@ ("ISS" :> 500)

\* the record field each kind's withheld total is read from
WithheldField ==
    ("PIS" :> "PIS Retido") @@ ("COFINS" :> "COFINS Retido") @@ ("IRPJ" :> "IRRF Retido") @@
    ("CSLL" :> "CSLL Retido") @@ ("ISS" :> "ISS Retido")

\* the sum of a field over the first n records, in units of 0.00001
RECURSIVE WithheldUnits(_, _)
WithheldUnits(n, field) ==
    IF n = 0 THEN 0 ELSE Units5(extract_out.value[n][field]) + WithheldUnits(n - 1, field)

\* C1: for every record sequence and revenue, calcular_impostos_finais returns
\* exactly one line for each of PIS, COFINS, IRPJ, CSLL, ISS with gross =
\* revenue * rate, withheld = the sum over all records of the kind's withheld
\* field (IRPJ reads 'IRRF Retido'), net = gross - withheld, and as second value
\* the sum of 'INSS Retido'; with no record, withheld = 0, net = gross, INSS = 0.
C1_CalculatorLines ==
    pipe_pc = "calculated" =>
        LET n == Len(extract_out.value)
        IN  /\ DOMAIN calc_out.resumo = {"PIS", "COFINS", "IRPJ", "CSLL", "ISS"}
            /\ \A kind \in DOMAIN calc_out.resumo :
                LET line == calc_out.resumo[kind]
                IN  /\ Units5(line["Valor Bruto a Pagar"]) =
                            Tenths(faturamento_mensal) * RatePer10000[kind]
                    /\ Units5(line["Total Retido"]) = WithheldUnits(n, WithheldField[kind])
                    /\ Units5(line["Valor Liquido a Pagar"]) =
                            Units5(line["Valor Bruto a Pagar"]) - Units5(line["Total Retido"])
                    /\ n = 0 => /\ line["Total Retido"] = Zero
                                /\ line["Valor Liquido a Pagar"] = line["Valor Bruto a Pagar"]
            /\ Units5(calc_out.inss) = WithheldUnits(n, "INSS Retido")
            /\ n = 0 => calc_out.inss = Zero

\* revenue 100000.00 and the record {PIS 10, COFINS 20, CSLL 5, IRRF 15, INSS 8,
\* ISS 50}: IRPJ is 1200.00 gross and 1185.00 net
C1_Witness ==
    /\ pipe_pc = "calculated"
    /\ faturamento_mensal = [num |-> 100000, den |-> 1]
    /\ Len(extract_out.value) = 1
    /\ extract_out.value[1]["IRRF Retido"] = [num |-> 15, den |-> 1]
    /\ extract_out.value[1]["PIS Retido"] = [num |-> 10, den |-> 1]
    /\ calc_out.resumo["IRPJ"]["Valor Bruto a Pagar"] = [num |-> 1200, den |-> 1]
    /\ calc_out.resumo["IRPJ"]["Valor Liquido a Pagar"] = [num |-> 1185, den |-> 1]
    /\ calc_out.inss = [num |-> 8, den |-> 1]

\* C6: for every document and non-negative revenue every amount of the pipeline
\* is non-negative except the net amounts: the six withheld amounts of every
\* record, every 'Total Retido', the INSS total and every 'Valor Bruto a Pagar'
\* are >= 0, and 'Valor Liquido a Pagar' is negative exactly when the withheld
\* total of the kind exceeds revenue * rate.
C6_OnlyNetMayBeNegative ==
    /\ pipe_pc = "extracted" =>
        \A k \in 1..Len(extract_out.value) : \A field \in RetidoKeys :
            extract_out.value[k][field].num >= 0
    /\ pipe_pc = "calculated" =>
        /\ calc_out.inss.num >= 0
        /\ \A kind \in DOMAIN calc_out.resumo :
            LET line == calc_out.resumo[kind]
            IN  /\ line["Total Retido"].num >= 0
                /\ line["Valor Bruto a Pagar"].num >= 0
                /\ line["Valor Liquido a Pagar"].num < 0 <=>
                        Units5(line["Total Retido"]) >
                            Tenths(faturamento_mensal) * RatePer10000[kind]

\* an over-withheld kind beside one that is not
C6_Witness ==
    /\ pipe_pc = "calculated"
    /\ document # <<>>
    /\ faturamento_mensal.num > 0
    /\ calc_out.resumo["PIS"]["Valor Liquido a Pagar"].num < 0
    /\ calc_out.resumo["COFINS"]["Valor Liquido a Pagar"].num > 0

-----------------------------------------------------------------------------
(* Claims about the application (Spec) *)

\* what extract_data_from_pdf returns for each file when it runs alone
Alone == [file \in Files |-> extract_data_from_pdf(Bytes(file)).value]

\* what calcular_impostos_finais then returns for each revenue
AloneSummary ==
    [file \in Files, revenue \in Faturamentos |->
        calcular_impostos_finais(Alone[file], revenue)]

ResultsIndependent ==
    /\ \A s \in Sessions :
        /\ pc[s] = "calc" => dados_extraidos[s] = Alone[uploaded_file[s]]
        /\ message[s] = "success" => resumo[s] = AloneSummary[uploaded_file[s], faturamento[s]]
    /\ \A id \in 1..Len(analises) :
        analises[id] =
            Row(analises[id].nome_arquivo, analises[id].faturamento,
                AloneSummary[analises[id].nome_arquivo, analises[id].faturamento])

\* C7 as stated: concurrent invocations return what they return alone, and the
\* core keeps no process-wide mutable cache or other shared mutable state.
C7_NoSharedCache ==
    /\ ResultsIndependent
    /\ cache = EmptyDict

\* C7 (amended): in any interleaving each invocation returns what it returns
\* alone; the one piece of shared mutable state of the core is the st.cache_data
\* memo of extract_data_from_pdf, which only ever maps a document to that
\* document's own extraction.
C7_IndependentDespiteMemo ==
    /\ ResultsIndependent
    /\ \A k \in DOMAIN cache : \E file \in Files : k = Bytes(file) /\ cache[k] = Alone[file]

\* two sessions analysing different files at once, one served from the memo
C7_Witness ==
    /\ pc["s1"] = "calc"
    /\ pc["s2"] = "compute"
    /\ uploaded_file["s1"] = "a.pdf"
    /\ uploaded_file["s2"] = "b.pdf"
    /\ Len(analises) = 1
    /\ analises[1].nome_arquivo = "a.pdf"
    /\ DOMAIN cache = {Bytes("a.pdf")}

C8_RunInv ==
    \A s \in Sessions :
        /\ pc[s] # "idle" => uploaded_file[s] # "none" /\ faturamento[s].num > 0
        /\ message[s] = "error" => uploaded_file[s] = "none" \/ faturamento[s].num <= 0
        /\ (pc[s] = "idle" /\ message[s] # "success") => resumo[s] = NoResumo

C8_RunStep ==
    /\ Len(analises') \in {Len(analises), Len(analises) + 1}
    /\ SubSeq(analises', 1, Len(analises)) = analises
    /\ analises' # analises =>
            \E s \in Sessions : pc[s] = "calc" /\ pc'[s] = "idle" /\ dados_extraidos[s] # <<>>
    /\ \A s \in Sessions :
        /\ (pc[s] = "idle" /\ pc'[s] # "idle") =>
                /\ uploaded_file[s] # "none"
                /\ faturamento[s].num > 0
                /\ analises' = analises
        /\ (pc[s] = "calc" /\ pc'[s] = "idle") =>
                IF dados_extraidos[s] # <<>>
                THEN /\ Len(analises') = Len(analises) + 1
                     /\ analises'[Len(analises')].nome_arquivo = uploaded_file[s]
                     /\ analises'[Len(analises')].faturamento = faturamento[s]
                     /\ message'[s] = "success"
                     /\ resumo'[s] # NoResumo
                ELSE /\ analises' = analises
                     /\ message'[s] = "warning"
                     /\ resumo'[s] = NoResumo

\* C8: the core is invoked only after a file is uploaded and the revenue is above
\* zero; calcular_impostos_finais is called and a row inserted only if the
\* extraction returned a record, and then exactly one row for the click; with
\* revenue <= 0, no file or an empty extraction nothing is calculated or
\* persisted, and the empty result is a warning, not an exception.
C8_AnalyseGuarded == C8_RunInv /\ [][C8_RunStep /\ C8_RunInv']_vars

\* one analysis persisted, one ended in the warning
C8_Witness ==
    /\ Len(analises) = 1
    /\ message["s1"] = "success"
    /\ resumo["s1"] # NoResumo
    /\ pc["s2"] = "idle"
    /\ message["s2"] = "warning"
    /\ uploaded_file["s2"] = "c.pdf"

PasswordCorrect(s) ==
    "password_correct" \in DOMAIN session_state[s] /\ session_state[s].password_correct

C10_GateInv ==
    /\ \A s \in Sessions :
        /\ interface[s] = "none" => DOMAIN session_state[s] = {}
        /\ interface[s] = "login" => ~PasswordCorrect(s)
        /\ (\/ interface[s] = "main"
            \/ pc[s] # "idle"
            \/ uploaded_file[s] # "none"
            \/ message[s] \in {"error", "warning", "success"}) => PasswordCorrect(s)
    /\ (db_ready \/ analises # <<>> \/ DOMAIN cache # {}) => \E s \in Sessions : PasswordCorrect(s)

C10_GateStep ==
    \A s \in Sessions :
        /\ PasswordCorrect(s) => PasswordCorrect(s)'
        /\ (~PasswordCorrect(s) /\ PasswordCorrect(s)') =>
                /\ interface[s] = "login"
                /\ password_input'[s] = APP_PASSWORD
        /\ (interface[s] = "login" /\ password_input'[s] # APP_PASSWORD) => ~PasswordCorrect(s)'

\* C10: the main interface runs only while session_state.password_correct is
\* true; password_correct starts false, becomes true only by 'Entrar' with the
\* APP_PASSWORD secret, stays false after any other attempt, and once true is
\* never set back to false.
C10_PasswordGate == C10_GateInv /\ [][C10_GateStep /\ C10_GateInv']_vars

\* one session is in, the other has just been refused
C10_Witness ==
    /\ PasswordCorrect("s1")
    /\ interface["s1"] = "main"
    /\ interface["s2"] = "login"
    /\ password_input["s2"] = "errada"
    /\ message["s2"] = "senha incorreta"
    /\ ~PasswordCorrect("s2")

====
